---- MODULE Spec2Model ----
(***************************************************************************)
(* The two Mesa notebooks of ABM-Mesa as one state machine.                *)
(*                                                                         *)
(*   kind = "stock"   the "Accidental millionaire" notebook                *)
(*                    (StockPredictor / StockPredicterModel)               *)
(*   kind = "travel"  the "Random traveling" notebook                      *)
(*                    (Traveler / TravelModel on a toroidal MultiGrid)     *)
(*                                                                         *)
(* Model.step() is split at the points where control passes between the   *)
(* model, the scheduler and an agent; pc is the position of the single     *)
(* thread of control:                                                      *)
(*   "init"      TravelModel.__init__ is inside _init_travelers            *)
(*   "idle"      between two Model.step() calls                            *)
(*   "schedule"  inside RandomActivation.step(), idx agents activated      *)
(*   "payout"    schedule.step() has returned, _payout() not yet run       *)
(*   "raised"    an exception has propagated out of the running call       *)
(*                                                                         *)
(* Money is counted in units of stock_price / Scale, Scale being a common  *)
(* multiple of every possible number of correct agents, so that            *)
(* pool / number_correct is computed exactly (the floats of the source     *)
(* are modelled as exact rationals).                                       *)
(***************************************************************************)
EXTENDS Integers, Sequences, FiniteSets, TLC

\* ------------------------------------------------------------------ bounds
MaxAgents == 3
MaxTravelers == 2
MaxWidth == 2
MaxHeight == 1
MaxSide == 4
MaxSteps == 2

VARIABLES
  kind,            \* which notebook runs
  N,               \* number_agents
  W, H,            \* grid.width, grid.height (0 for the stock model)
  pc,              \* position of the thread of control
  agents,          \* schedule.agents, the list the scheduler shuffles in place
  idx,             \* agents already visited by the running loop over schedule.agents
  steps,           \* completed StockPredicterModel.step() calls (the driver's i)
  pool,            \* StockPredicterModel.pool
  stock_market,    \* StockPredicterModel.stock_market
  guess,           \* StockPredictor.guess, per unique_id
  earnings,        \* StockPredictor.earnings, per unique_id
  start_earnings,  \* history: earnings when the running / last step() was entered
  activations,     \* history: calls of agent.step() per agent in the running / last tick
  guess_tick,      \* history: the tick (1, 2, ...) in which each guess was drawn, 0 for None
  market_tick,     \* history: the tick in which stock_market was drawn, 0 for None
  travel_prob,     \* Traveler.travel_prob, per unique_id
  pos,             \* Traveler.pos, per unique_id
  grid,            \* MultiGrid.grid[x][y], the occupant set of each cell
  draw,            \* the value np.random.binomial returned in move(), while the scheduler runs
  zero_steps,      \* history: the completed steps in which no agent guessed correctly
  snapshot         \* history: what the last snapshot read since the last step() returned

vars == <<kind, N, W, H, pc, agents, idx, steps, pool, stock_market, guess,
          earnings, start_earnings, activations, guess_tick, market_tick,
          travel_prob, pos, grid, draw, zero_steps, snapshot>>

stockVars == <<pool, stock_market, guess, earnings, start_earnings, steps,
               guess_tick, market_tick, zero_steps>>
travelVars == <<travel_prob, pos, grid, draw>>
config == <<kind, N, W, H>>

\* ------------------------------------------------------------- arithmetic
RECURSIVE Gcd(_, _)
Gcd(a, b) == IF b = 0 THEN a ELSE Gcd(b, a % b)

RECURSIVE LcmUpTo(_)
LcmUpTo(n) == IF n <= 1 THEN 1
              ELSE LET l == LcmUpTo(n - 1) IN (l * n) \div Gcd(l, n)

\* one unit of money is 1 / Scale: every pool / number_correct is a whole
\* number of units
Scale == LcmUpTo(MaxAgents)

RECURSIVE SumOver(_, _)
SumOver(f, S) == IF S = {} THEN 0
                 ELSE LET a == CHOOSE x \in S : TRUE
                      IN f[a] + SumOver(f, S \ {a})

Ids == 0 .. (N - 1)

\* Python's None, for guess and stock_market before the first step
None == -1

\* Traveler.pos before place_agent
NoPos == <<>>

\* no snapshot was read since the last step()
NoSnapshot == <<>>

\* ------------------------------------------------------------- scheduler
\* range(self.number_agents) with schedule.add(a): insertion order
InsertionOrder(n) == [i \in 1 .. n |-> i - 1]

\* random.shuffle(self.agents): every ordering of the same agents
Shuffle_WithRepetition(order) ==
  [1 .. Len(order) -> {order[i] : i \in 1 .. Len(order)}]

Shuffle(order) ==
  {p \in [1 .. Len(order) -> {order[i] : i \in 1 .. Len(order)}] :
     \A i, j \in 1 .. Len(order) : p[i] = p[j] => i = j}

\* "for agent in self.agents" is exhausted
ScheduleDone_OneShort == idx >= Len(agents) - 1

ScheduleDone == idx >= Len(agents)


\* ------------------------------------------------- stock-predictor model
\* self.stock_price = 1.0
stock_price == Scale

\* np.random.binomial(1, p) for 0 < p < 1
Bernoulli == {0, 1}

\* StockPredicterModel.__init__(N)
InitStock ==
  /\ kind = "stock"
  /\ N \in 1 .. MaxAgents
  /\ W = 0 /\ H = 0
  /\ pc = "idle"
  /\ agents = InsertionOrder(N)
  /\ idx = 0
  /\ steps = 0
  /\ zero_steps = 0
  /\ pool = 0
  /\ stock_market = None
  /\ guess = [a \in 0 .. (N - 1) |-> None]
  /\ earnings = [a \in 0 .. (N - 1) |-> 0]
  /\ start_earnings = [a \in 0 .. (N - 1) |-> 0]
  /\ activations = [a \in 0 .. (N - 1) |-> 0]
  /\ guess_tick = [a \in 0 .. (N - 1) |-> 0]
  /\ market_tick = 0
  /\ travel_prob = [a \in 0 .. (N - 1) |-> None]
  /\ pos = [a \in 0 .. (N - 1) |-> NoPos]
  /\ grid = <<>>
  /\ draw = None
  /\ snapshot = NoSnapshot

\* self.pool = self.number_agents * self.stock_price
NewPool_Accumulating == pool + N * stock_price

NewPool == N * stock_price

\* StockPredicterModel.step(), up to the entry of the scheduler's loop:
\* pool, stock_market, then schedule.step() shuffles schedule.agents
StockStepBegin ==
  /\ kind = "stock" /\ pc = "idle" /\ steps < MaxSteps
  /\ pool' = NewPool
  /\ stock_market' \in Bernoulli
  /\ market_tick' = steps + 1
  /\ agents' \in Shuffle(agents)
  /\ idx' = 0
  /\ pc' = "schedule"
  /\ start_earnings' = earnings
  /\ activations' = [a \in Ids |-> 0]
  /\ snapshot' = NoSnapshot
  /\ UNCHANGED <<config, steps, zero_steps, guess, guess_tick, earnings, travelVars>>

\* self.earnings -= self.model.stock_price
AfterInvestment_Refunded(e) == e

AfterInvestment(e) == e - stock_price

\* StockPredictor.step() of the next agent of the shuffled list
StockPredictorStep ==
  /\ kind = "stock" /\ pc = "schedule" /\ ~ScheduleDone
  /\ LET a == agents[idx + 1] IN
       /\ \E g \in Bernoulli : guess' = [guess EXCEPT ![a] = g]
       /\ guess_tick' = [guess_tick EXCEPT ![a] = steps + 1]
       /\ earnings' = [earnings EXCEPT ![a] = AfterInvestment(@)]
       /\ activations' = [activations EXCEPT ![a] = @ + 1]
  /\ idx' = idx + 1
  /\ UNCHANGED <<config, snapshot, pc, agents, steps, zero_steps, pool, stock_market,
                 market_tick, start_earnings, travelVars>>

\* schedule.step() returns: StockPredicterModel.step() goes on to _payout(),
\* TravelModel.step() returns; the locals of the last move() are gone
ScheduleReturn ==
  /\ pc = "schedule" /\ ScheduleDone
  /\ pc' = IF kind = "stock" THEN "payout" ELSE "idle"
  /\ draw' = None
  /\ UNCHANGED <<config, snapshot, agents, idx, activations, stockVars,
                 travel_prob, pos, grid>>

\* agent.guess == self.stock_market
Correct(a) == guess[a] = stock_market

\* _count_correct_agents
count_correct_agents_Everyone == N

count_correct_agents == Cardinality({a \in Ids : Correct(a)})

\* Python's a / b
TrueDiv(a, b) == IF b = 0 THEN [raises |-> TRUE, value |-> 0]
                 ELSE [raises |-> FALSE, value |-> a \div b]

\* pool_share = self.pool / number_correct if number_correct > 0 else 0.0
PoolShare_Unguarded(p, number_correct) == TrueDiv(p, number_correct)

PoolShare_OfAll(p, number_correct) ==
  IF number_correct > 0 THEN TrueDiv(p, N)
  ELSE [raises |-> FALSE, value |-> 0]

PoolShare(p, number_correct) ==
  IF number_correct > 0 THEN TrueDiv(p, number_correct)
  ELSE [raises |-> FALSE, value |-> 0]

\* _payout(), and the return of StockPredicterModel.step()
Payout ==
  /\ kind = "stock" /\ pc = "payout"
  /\ LET pool_share == PoolShare(pool, count_correct_agents) IN
       IF pool_share.raises
       THEN /\ pc' = "raised"
            /\ UNCHANGED <<earnings, steps, zero_steps>>
       ELSE /\ earnings' = [a \in Ids |->
                 IF Correct(a) THEN earnings[a] + pool_share.value
                 ELSE earnings[a]]
            /\ steps' = steps + 1
            /\ zero_steps' = IF \E a \in Ids : Correct(a) THEN zero_steps
                             ELSE zero_steps + 1
            /\ pc' = "idle"
  /\ UNCHANGED <<config, snapshot, agents, idx, activations, pool, stock_market, guess,
                 guess_tick, market_tick, start_earnings, travelVars>>


\* ------------------------------------------------------ random-walk model
\* np.ceil(np.sqrt(n))
CeilSqrt(n) == CHOOSE k \in 0 .. n : k * k >= n /\ (k = 0 \/ (k - 1) * (k - 1) < n)

\* initial_dim = np.ceil(np.sqrt(self.number_agents))
initial_dim == CeilSqrt(N)

\* int(h / 2) for the float h / 2: truncation towards zero
IntOfHalf(h) == IF h >= 0 THEN h \div 2 ELSE -((-h) \div 2)

\* np.random.randint(center - initial_dim, center + initial_dim) with
\* center = size / 2: the integers of [int(low), int(high))
Randint_HighInclusive(size) ==
  IntOfHalf(size - 2 * initial_dim) .. IntOfHalf(size + 2 * initial_dim)

Randint(size) ==
  IntOfHalf(size - 2 * initial_dim) .. (IntOfHalf(size + 2 * initial_dim) - 1)

\* a Python list of length len accepts the index i (no IndexError)
IndexOK(i, len) == -len <= i /\ i < len

\* the element a Python list of length len yields for the accepted index i
ListIndex(i, len) == IF i < 0 THEN i + len ELSE i

\* self.grid[x][y] of the MultiGrid for pos = (x, y)
Cell(p) == <<ListIndex(p[1], W), ListIndex(p[2], H)>>

Cells == (0 .. (W - 1)) \X (0 .. (H - 1))

\* probabilities are counted in units of 1 / ProbOne
ProbOne == 10000

\* travel_probs = (1e-4, 0.01)
travel_probs == <<1, 100>>

\* np.random.binomial(1, p): the values it can return
Binomial(p) == IF p = 0 THEN {0} ELSE IF p = ProbOne THEN {1} ELSE {0, 1}

\* TravelModel.__init__(n, travel_probs, width, height) up to the call of
\* _init_travelers: the agents are created, each with
\* travel_probs[int(np.random.binomial(1, 0.5))], and scheduled; none is placed
TravelModelInit(n, width, height) ==
  /\ kind = "travel"
  /\ N = n
  /\ W = width
  /\ H = height
  /\ travel_prob \in [0 .. (N - 1) -> {travel_probs[b + 1] : b \in Bernoulli}]
  /\ pc = "init"
  /\ agents = InsertionOrder(N)
  /\ idx = 0
  /\ steps = 0
  /\ zero_steps = 0
  /\ pool = 0
  /\ stock_market = None
  /\ guess = [a \in 0 .. (N - 1) |-> None]
  /\ earnings = [a \in 0 .. (N - 1) |-> 0]
  /\ start_earnings = [a \in 0 .. (N - 1) |-> 0]
  /\ activations = [a \in 0 .. (N - 1) |-> 0]
  /\ guess_tick = [a \in 0 .. (N - 1) |-> 0]
  /\ market_tick = 0
  /\ pos = [a \in 0 .. (N - 1) |-> NoPos]
  /\ grid = [c \in (0 .. (W - 1)) \X (0 .. (H - 1)) |-> {}]
  /\ draw = None
  /\ snapshot = NoSnapshot

InitTravel ==
  \E n \in 1 .. MaxTravelers, width \in 1 .. MaxWidth, height \in 1 .. MaxHeight :
    TravelModelInit(n, width, height)

\* grid.place_agent(agent, (x, y)): self.grid[x][y].add(agent); agent.pos = pos
PlaceAgent(a, p) ==
  /\ grid' = [grid EXCEPT ![Cell(p)] = @ \cup {a}]
  /\ pos' = [pos EXCEPT ![a] = p]

\* one iteration of the loop of _init_travelers; the last one ends __init__
InitTravelers ==
  /\ kind = "travel" /\ pc = "init"
  /\ \E x \in Randint(W), y \in Randint(H) :
       IF IndexOK(x, W) /\ IndexOK(y, H)
       THEN /\ PlaceAgent(agents[idx + 1], <<x, y>>)
            /\ idx' = idx + 1
            /\ pc' = IF idx + 1 = Len(agents) THEN "idle" ELSE "init"
       ELSE /\ pc' = "raised"
            /\ UNCHANGED <<pos, grid, idx>>
  /\ UNCHANGED <<config, snapshot, agents, activations, stockVars, travel_prob, draw>>

\* TravelModel.step(): schedule.step() shuffles schedule.agents
TravelStepBegin ==
  /\ kind = "travel" /\ pc = "idle"
  /\ agents' \in Shuffle(agents)
  /\ idx' = 0
  /\ pc' = "schedule"
  /\ activations' = [a \in Ids |-> 0]
  /\ snapshot' = NoSnapshot
  /\ UNCHANGED <<config, stockVars, travelVars>>

\* grid.out_of_bounds(pos)
out_of_bounds(p) == p[1] < 0 \/ p[1] >= W \/ p[2] < 0 \/ p[2] >= H

\* grid.torus_adj(pos) of a toroidal grid
torus_adj(p) == IF ~out_of_bounds(p) THEN p ELSE <<p[1] % W, p[2] % H>>

\* the offsets get_neighborhood visits: radius 1
Offsets_Radius2 == -2 .. 2

Offsets == -1 .. 1

\* grid.get_neighborhood(pos, moore=True, include_center=False)
get_neighborhood_WithCenter(p) ==
  {torus_adj(<<p[1] + dx, p[2] + dy>>) : <<dx, dy>> \in Offsets \X Offsets}

get_neighborhood(p) ==
  {torus_adj(<<p[1] + dx, p[2] + dy>>) :
     <<dx, dy>> \in {o \in Offsets \X Offsets : ~(o[1] = 0 /\ o[2] = 0)}}

\* what grid.move_agent(agent, pos) makes of the positions ps and the cells g:
\* torus_adj, _remove_agent at agent.pos, _place_agent at pos, agent.pos = pos
moved_Displacing(ps, g, a, p) ==
  LET new == torus_adj(p)
      removed == [g EXCEPT ![Cell(ps[a])] = @ \ {a}]
  IN [pos |-> [ps EXCEPT ![a] = new],
      grid |-> [removed EXCEPT ![Cell(new)] = {a}]]

moved_UnlessOccupied(ps, g, a, p) ==
  LET new == torus_adj(p)
      removed == [g EXCEPT ![Cell(ps[a])] = @ \ {a}]
  IN IF g[Cell(new)] # {} THEN [pos |-> ps, grid |-> g]
     ELSE [pos |-> [ps EXCEPT ![a] = new],
           grid |-> [removed EXCEPT ![Cell(new)] = @ \cup {a}]]

moved(ps, g, a, p) ==
  LET new == torus_adj(p)
      removed == [g EXCEPT ![Cell(ps[a])] = @ \ {a}]
  IN [pos |-> [ps EXCEPT ![a] = new],
      grid |-> [removed EXCEPT ![Cell(new)] = @ \cup {a}]]

\* grid.move_agent(agent, pos)
move_agent(a, p) ==
  LET after == moved(pos, grid, a, p)
  IN /\ grid' = after.grid
     /\ pos' = after.pos

\* what Traveler.step() of agent a makes of the world st = [pos, grid] when
\* its draws are c: NoPos for a draw of 0, the chosen neighbour for a draw of 1
traveler_step(st, a, c) ==
  IF c = NoPos THEN st ELSE moved(st.pos, st.grid, a, c)

\* move() reads self.travel_prob for the draw d and does not assign it
TravelProbAfterMove_Redrawn(p, d) == travel_probs[d + 1]

TravelProbAfterMove(p, d) == p

\* Traveler.step() of the next agent of the shuffled list: move(), and
\* _travel() when the draw is 1
TravelerStep ==
  /\ kind = "travel" /\ pc = "schedule" /\ ~ScheduleDone
  /\ LET a == agents[idx + 1] IN
       /\ \E d \in Binomial(travel_prob[a]) :
            /\ draw' = d
            /\ travel_prob' = [travel_prob EXCEPT ![a] = TravelProbAfterMove(@, d)]
            /\ IF d = 1
               THEN \E new_position \in get_neighborhood(pos[a]) :
                      move_agent(a, new_position)
               ELSE UNCHANGED <<pos, grid>>
       /\ activations' = [activations EXCEPT ![a] = @ + 1]
  /\ idx' = idx + 1
  /\ UNCHANGED <<config, snapshot, pc, agents, stockVars>>

\* ---------------------------------------------------------- snapshot reads
\* get_earnings(agents)
get_earnings(order) == [i \in 1 .. Len(order) |-> earnings[order[i]]]

\* max_earnings(agents): np.max(get_earnings(agents))
max_earnings(order) ==
  CHOOSE m \in {get_earnings(order)[i] : i \in 1 .. Len(order)} :
    \A i \in 1 .. Len(order) : get_earnings(order)[i] <= m

\* update_agents_data(agents): the columns x, y and travel_prob
update_agents_data(order) ==
  <<[i \in 1 .. Len(order) |-> pos[order[i]][1]],
    [i \in 1 .. Len(order) |-> pos[order[i]][2]],
    [i \in 1 .. Len(order) |-> travel_prob[order[i]]]>>

\* what the driver reads from model.schedule.agents between two steps
Snapshot ==
  IF kind = "stock"
  THEN <<get_earnings(agents), <<max_earnings(agents)>>>>
  ELSE update_agents_data(agents)

\* "for agent in agents": the reads iterate schedule.agents and leave it as
\* it is
AgentsAfterRead_Reversed(order) ==
  [i \in 1 .. Len(order) |-> order[Len(order) + 1 - i]]

AgentsAfterRead(order) == order

\* the driver reads the agents' data between two steps
ReadSnapshot ==
  /\ pc = "idle"
  /\ snapshot' = Snapshot
  /\ agents' = AgentsAfterRead(agents)
  /\ UNCHANGED <<config, pc, idx, activations, stockVars, travelVars>>

\* ---------------------------------------------------------- specification
Init == InitStock \/ InitTravel

Next ==
  \/ StockStepBegin
  \/ StockPredictorStep
  \/ ScheduleReturn
  \/ Payout
  \/ InitTravelers
  \/ TravelStepBegin
  \/ TravelerStep
  \/ ReadSnapshot

Spec == Init /\ [][Next]_vars

\* the stock-predictor notebook alone
NextStock ==
  \/ StockStepBegin
  \/ StockPredictorStep
  \/ ScheduleReturn
  \/ Payout
  \/ ReadSnapshot

SpecStock == InitStock /\ [][NextStock]_vars

\* the random-walk notebook alone
NextTravel ==
  \/ InitTravelers
  \/ TravelStepBegin
  \/ TravelerStep
  \/ ScheduleReturn
  \/ ReadSnapshot

SpecTravel == InitTravel /\ [][NextTravel]_vars

\* the random-walk notebook with a single agent on grids of up to
\* MaxSide x MaxSide cells, wide enough for all 8 neighbours to differ
InitWide ==
  \E width \in 1 .. MaxSide, height \in 1 .. MaxSide :
    TravelModelInit(1, width, height)

SpecWide == InitWide /\ [][NextTravel]_vars

\* ------------------------------------------------------ stock-predictor claims
\* a StockPredicterModel.step() has returned and the next has not begun
StockStepDone == kind = "stock" /\ pc = "idle" /\ steps > 0

\* what the payout pass of the transition adds to agent a
Paid(a) == earnings'[a] - earnings[a]

\* C1: pool conservation. Whenever the payout pass runs with at least one
\* correct agent, the amounts it adds to the earnings sum to exactly
\* pool = number_agents * stock_price, every correct agent gets the same share
\* pool / number_correct and every incorrect agent gets nothing.
C1_PoolConservation ==
  [][(kind = "stock" /\ pc = "payout" /\ pc' # pc /\ count_correct_agents > 0) =>
       /\ pool = N * stock_price
       /\ SumOver([a \in Ids |-> Paid(a)], Ids) = pool
       /\ \A a \in Ids :
            /\ Correct(a) => Paid(a) * count_correct_agents = pool
            /\ ~Correct(a) => Paid(a) = 0]_vars

\* C1 witness: a step has paid out to some, but not all, of at least two agents
C1_Witness ==
  /\ StockStepDone
  /\ count_correct_agents > 0
  /\ count_correct_agents < N
  /\ \E a \in Ids : Correct(a) /\ earnings[a] > start_earnings[a]

\* C2: zero-correct-guess step. No step raises (the division by the number of
\* correct agents is guarded), and after a step in which no guess equals the
\* market outcome every agent's earnings is exactly stock_price lower than
\* when the step began, so the payout pass has increased nobody's earnings.
C2_ZeroCorrectStep ==
  kind = "stock" =>
    /\ pc # "raised"
    /\ (StockStepDone /\ count_correct_agents = 0) =>
         \A a \in Ids : earnings[a] = start_earnings[a] - stock_price

\* C2 witness: a step with no correct agent has completed
C2_Witness ==
  /\ StockStepDone
  /\ count_correct_agents = 0
  /\ \A a \in Ids : guess[a] \in Bernoulli /\ guess[a] # stock_market

\* C3: in every tick of either model every registered agent's step() is
\* invoked exactly once, whatever ordering the scheduler draws: while the
\* scheduler runs, the idx agents visited so far were each activated once and
\* no other agent was; when it has returned, every agent was activated once.
C3_ActivatedExactlyOnce ==
  /\ pc = "schedule" =>
       /\ \A a \in Ids : activations[a] <= 1
       /\ SumOver(activations, Ids) = idx
       /\ \A i \in 1 .. Len(agents) : activations[agents[i]] = (IF i <= idx THEN 1 ELSE 0)
  /\ pc = "payout" => \A a \in Ids : activations[a] = 1
  /\ pc = "idle" =>
       \/ \A a \in Ids : activations[a] = 0
       \/ \A a \in Ids : activations[a] = 1

\* C3 witness: a tick of at least two agents has completed under an ordering
\* other than the insertion order
C3_Witness ==
  /\ pc = "idle"
  /\ N >= 2
  /\ agents # InsertionOrder(N)
  /\ \A a \in Ids : activations[a] = 1

\* C4: payout ordering. When the payout pass starts, every agent has been
\* activated in this tick, and the market outcome and every agent's guess are
\* the ones drawn in this tick (a 0 or 1, never None, never an earlier tick's).
C4_PayoutAfterActivations ==
  (kind = "stock" /\ pc = "payout") =>
    /\ idx = N
    /\ stock_market \in Bernoulli
    /\ market_tick = steps + 1
    /\ \A a \in Ids :
         /\ activations[a] = 1
         /\ guess[a] \in Bernoulli
         /\ guess_tick[a] = steps + 1

\* C4 witness: the payout pass of a second tick is about to start, the
\* guesses of the first tick having been overwritten
C4_Witness ==
  /\ kind = "stock" /\ pc = "payout"
  /\ steps = 1
  /\ N >= 2
  /\ \A a \in Ids : guess_tick[a] = 2

\* C9: per-agent result of one step. After a step each agent's earnings has
\* changed by -stock_price + pool / count if its guess equals the market
\* outcome and by -stock_price otherwise, pool being N * stock_price and
\* count the number of correct agents.
C9_StepResult ==
  StockStepDone =>
    \A a \in Ids :
      LET change == earnings[a] - start_earnings[a] IN
        /\ Correct(a) =>
             (change + stock_price) * count_correct_agents = N * stock_price
        /\ ~Correct(a) => change = -stock_price

\* C9 witness: three agents, one of them correct: it nets 2 stock_price, the
\* others lose stock_price
C9_Witness ==
  /\ StockStepDone
  /\ N = 3
  /\ count_correct_agents = 1
  /\ \E a \in Ids : earnings[a] - start_earnings[a] = 2 * stock_price
  /\ \E a \in Ids : earnings[a] - start_earnings[a] = -stock_price

\* C10: no carry-over. From the first step on the pool is exactly
\* number_agents * stock_price, whatever happened before, and a step pays out
\* either that amount or nothing: a pool left undistributed is never added.
C10_NoCarryOver ==
  kind = "stock" =>
    /\ (pc \in {"schedule", "payout"} \/ steps > 0) => pool = N * stock_price
    /\ StockStepDone =>
         SumOver(earnings, Ids) - SumOver(start_earnings, Ids) + N * stock_price
           \in {0, N * stock_price}

\* C10 witness: the payout pass of the second tick is about to pay, the first
\* tick having had no correct agent (its pool was left undistributed)
C10_Witness ==
  /\ kind = "stock" /\ pc = "payout"
  /\ steps = 1
  /\ SumOver(start_earnings, Ids) = -(N * stock_price)
  /\ count_correct_agents > 0

\* ---------------------------------------------------------- random-walk claims
\* TravelModel.__init__ has returned
Constructed == kind = "travel" /\ pc \in {"idle", "schedule"}

\* C5: grid consistency. Once the model is constructed, every agent is in the
\* occupant set of exactly one cell, and that cell is its recorded position.
C5_GridConsistency ==
  Constructed =>
    \A a \in Ids :
      /\ pos[a] \in Cells
      /\ a \in grid[pos[a]]
      /\ \A c \in Cells : a \in grid[c] => c = pos[a]

\* q is a cell of the Moore neighbourhood of p, wrapped modulo W and H
MooreNeighbour(p, q) ==
  \E dx, dy \in -1 .. 1 :
    /\ ~(dx = 0 /\ dy = 0)
    /\ q = <<(p[1] + dx) % W, (p[2] + dy) % H>>

\* a and b differ by at most 1 modulo m
WithinOne(a, b, m) == (b - a) % m \in {0, 1 % m, (m - 1) % m}

\* C6: random-walk activation. The activation of a Traveler leaves its
\* position unchanged when the Bernoulli draw is 0 and moves it to a cell of
\* the wrapped Moore neighbourhood of its previous position when the draw is
\* 1, so x and y each change by at most 1 modulo the grid size; and the cells
\* the destination is chosen from before an activation are all the cells of
\* that neighbourhood.
C6_RandomWalkActivation ==
  /\ [][(kind = "travel" /\ pc = "schedule" /\ idx' = idx + 1) =>
          LET a == agents[idx + 1] IN
            /\ draw' \in Bernoulli
            /\ draw' = 0 => pos'[a] = pos[a]
            /\ draw' = 1 => MooreNeighbour(pos[a], pos'[a])
            /\ pos'[a] # pos[a] => pos'[a] \in Cells
            /\ WithinOne(pos[a][1], pos'[a][1], W)
            /\ WithinOne(pos[a][2], pos'[a][2], H)]_vars
  /\ []((kind = "travel" /\ pc = "schedule" /\ ~ScheduleDone) =>
          LET a == agents[idx + 1] IN
            get_neighborhood(pos[a]) = {q \in Cells : MooreNeighbour(pos[a], q)})

\* C6 witness: the only agent of a grid of width 4, placed at x = 1 or 2, has
\* just been moved (draw 1) and stands in column 3, next to the wrap-around
C6_Witness ==
  /\ kind = "travel" /\ pc = "schedule"
  /\ N = 1 /\ W = 4
  /\ idx = 1 /\ draw = 1
  /\ pos[0][1] = 3

\* the placement of _init_travelers is still in place: no tick has begun
InitialPlacement ==
  /\ kind = "travel"
  /\ pc \in {"init", "idle"}
  /\ \A a \in Ids : activations[a] = 0

C8_PositionsOnGrid ==
  kind = "travel" =>
    /\ pc # "raised"
    /\ \A a \in Ids : pos[a] # NoPos => pos[a] \in Cells

\* the agent about to be activated stands at (0, 0): _travel() would query
\* the neighbourhood of (0, 0)
AtOrigin ==
  /\ kind = "travel" /\ pc = "schedule" /\ ~ScheduleDone
  /\ pos[agents[idx + 1]] = <<0, 0>>

Scheduled == {agents[i] : i \in 1 .. Len(agents)}

\* C13: every Traveler's travel_prob is one of the two values of travel_probs
\* from its creation on and no step changes it; the scheduler's list holds
\* the N agents created at construction, each once, and no step changes
\* number_agents or the set of scheduled agents.
C13_TravelProbImmutable ==
  /\ [](kind = "travel" =>
          /\ \A a \in Ids : travel_prob[a] \in {travel_probs[1], travel_probs[2]}
          /\ Len(agents) = N
          /\ Scheduled = Ids)
  /\ [][kind = "travel" =>
          /\ travel_prob' = travel_prob
          /\ N' = N
          /\ Scheduled' = Scheduled]_vars

\* C13 witness: both of two agents of different travel_prob were activated
\* in a tick, the last activation having moved its agent
C13_Witness ==
  /\ kind = "travel" /\ pc = "schedule" /\ ScheduleDone
  /\ N = 2
  /\ \A a \in Ids : activations[a] = 1
  /\ travel_prob[0] = travel_probs[1]
  /\ travel_prob[1] = travel_probs[2]
  /\ draw = 1

\* a snapshot read: the thread of control is between two steps and stays there
SnapshotRead == pc = "idle" /\ pc' = "idle"

\* C14: idempotent snapshot reads. A snapshot read (update_agents_data for the
\* random-walk model, get_earnings / max_earnings for the stock-predictor
\* model) changes no agent or model state, and a second read with no step in
\* between returns what the first returned.
C14_IdempotentReads ==
  /\ [][SnapshotRead =>
          /\ UNCHANGED <<config, pc, agents, idx, activations, stockVars, travelVars>>
          /\ snapshot # NoSnapshot => snapshot' = snapshot]_vars
  /\ []((pc = "idle" /\ snapshot # NoSnapshot) => snapshot = Snapshot)

\* C14 witness: after a tick that left two random-walk agents in different
\* cells, under an ordering other than the insertion order, a snapshot was read
C14_Witness ==
  /\ kind = "travel" /\ pc = "idle"
  /\ N = 2
  /\ \A a \in Ids : activations[a] = 1
  /\ agents # InsertionOrder(N)
  /\ pos[0] # pos[1]
  /\ snapshot = Snapshot

\* sum of all agents' earnings
total_earnings == SumOver(earnings, Ids)

\* C15: zero-sum accounting. Starting from all earnings 0, after any sequence
\* of steps the sum of all agents' earnings is -(number_agents * stock_price)
\* times the number of those steps in which no agent guessed correctly; so the
\* total is never positive, a step with at least one correct guesser leaves it
\* unchanged and a step with none lowers it.
C15_ZeroSumAccounting ==
  (kind = "stock" /\ pc = "idle") =>
    /\ zero_steps \in 0 .. steps
    /\ total_earnings = -(N * stock_price) * zero_steps
    /\ total_earnings <= 0
    /\ StockStepDone =>
         IF \E a \in Ids : Correct(a)
         THEN total_earnings = SumOver(start_earnings, Ids)
         ELSE total_earnings < SumOver(start_earnings, Ids)

\* C15 witness: two steps have completed, one with a correct guesser and one
\* without, and some agent is ahead while the total is behind
C15_Witness ==
  /\ StockStepDone
  /\ steps = 2 /\ zero_steps = 1
  /\ N >= 2
  /\ \E a \in Ids : earnings[a] > 0
  /\ total_earnings < 0

\* the draws the Traveler.step() of agent a can make: no move, or a cell of
\* the neighbourhood of its position
Choices(a) == {NoPos} \cup get_neighborhood(pos[a])

\* the positions and the occupant sets
World == [pos |-> pos, grid |-> grid]

\* the number of agents whose guess is the market outcome
Winners == Cardinality({b \in Ids : guess[b] = stock_market})

\* C16: activation-order independence. Given the agents' draws (and the market
\* outcome), the state after a step is the same for every permutation in which
\* the scheduler activates the agents. Random walk: when a tick begins,
\* activating the first two agents of the scheduler's list in either order
\* leads, for each choice of their draws, to the same positions and the same
\* occupant sets (every ordering is the list of some tick, every world a tick
\* passes through is the world some tick begins with, and every permutation is
\* a product of exchanges of neighbours). Stock predictor: after a step every
\* agent's earnings is the function of its earnings before the step, the
\* guesses and the market outcome that does not mention the ordering.
C16_OrderIndependence ==
  /\ (kind = "travel" /\ pc = "schedule" /\ idx = 0 /\ Len(agents) >= 2) =>
       LET a == agents[1]
           b == agents[2]
       IN \A ca \in Choices(a), cb \in Choices(b) :
            traveler_step(traveler_step(World, a, ca), b, cb)
              = traveler_step(traveler_step(World, b, cb), a, ca)
  /\ StockStepDone =>
       \A a \in Ids :
         /\ guess[a] \in Bernoulli
         /\ earnings[a] = start_earnings[a] - stock_price
              + (IF guess[a] = stock_market THEN (N * stock_price) \div Winners ELSE 0)

\* C16 witness: the scheduler has activated two random-walk agents in another
\* order than the insertion order, the second of them has moved, and they
\* share a cell
C16_Witness ==
  /\ kind = "travel" /\ pc = "schedule" /\ ScheduleDone
  /\ N = 2
  /\ agents # InsertionOrder(N)
  /\ draw = 1
  /\ W * H >= 2
  /\ \E c \in Cells : grid[c] = Ids

\* an activation: the scheduler passes to the next agent of its list
Activation == pc = "schedule" /\ idx' = idx + 1

\* C17: activation frame. The activation of one agent changes only that
\* agent's own state. A StockPredictor's step() changes only its own guess and
\* earnings and leaves pool, stock_market and every other agent unchanged. A
\* Traveler's step() changes only its own position and the occupant sets of its
\* old and new cell, where it removes and adds only itself: every other agent
\* keeps its position and its cell, and the moved agent is in its new cell
\* whoever else is there.
C17_ActivationFrame ==
  [][Activation =>
       LET a == agents[idx + 1] IN
         /\ UNCHANGED <<config, agents, pool, stock_market, steps, travel_prob>>
         /\ \A b \in Ids \ {a} :
              /\ guess'[b] = guess[b]
              /\ earnings'[b] = earnings[b]
              /\ pos'[b] = pos[b]
         /\ kind = "stock" => UNCHANGED <<pos, grid>>
         /\ kind = "travel" =>
              /\ UNCHANGED <<guess, earnings>>
              /\ \A c \in Cells : grid'[c] \ {a} = grid[c] \ {a}
              /\ \A c \in Cells \ {Cell(pos[a]), Cell(pos'[a])} : grid'[c] = grid[c]
              /\ a \in grid'[Cell(pos'[a])]]_vars

\* C17 witness: the first of two random-walk agents was activated with a draw
\* of 1 and stands in the cell in which the other agent, not yet activated,
\* still is
C17_Witness ==
  /\ kind = "travel" /\ pc = "schedule"
  /\ N = 2 /\ idx = 1
  /\ draw = 1
  /\ W * H >= 2
  /\ activations[agents[2]] = 0
  /\ grid[Cell(pos[agents[1]])] = Ids

====
